---- MODULE Spec2Model ----
(***************************************************************************)
(* Model of skchem.cross_validation.similarity_threshold                   *)
(* (src/skchem/cross_validation/similarity_threshold.py): the              *)
(* SimThresholdSplit cross validator.                                      *)
(*                                                                         *)
(* Conventions.  Items carry the source's indices 0..n-1.  A similarity    *)
(* or a threshold is an integer number of 1/Unit steps (Unit is 1.0), so   *)
(* the comparisons `sim <= threshold` and `sim > threshold` are exact.     *)
(* The split sizes are Python floats: they are modelled bit for bit as     *)
(* IEEE-754 binary64 values (see TrueDiv, FloatAdd).  Python's None is     *)
(* the record None; a raised exception is a record of kind "raised".       *)
(*                                                                         *)
(* Variables.  self: the instance; call: the last call made on it and its  *)
(* arguments; ret: what that call returned or raised; src: the data set    *)
(* the inputs are drawn from; run: the loop of _cluster; engine: one       *)
(* similarity computation, block-pair by block-pair.                       *)
(*                                                                         *)
(* Specifications.  SpecSplit: split and k_fold on a fitted instance.      *)
(* SpecCluster: the loop of _cluster.  SpecPairs: _pairs_from_fps in its   *)
(* two modes.  SpecFit: the first fit of an instance.  Spec: an instance   *)
(* and any number of fit calls.                                            *)
(***************************************************************************)
EXTENDS Integers, Sequences, FiniteSets, TLC

VARIABLES self, call, ret, src, run, engine

vars == <<self, call, ret, src, run, engine>>

(***************************************************************************)
(* Bounds of the model.                                                    *)
(***************************************************************************)
MaxItems == 3       \* item counts n range over 1..MaxItems
MaxPairs == 2       \* length of the pair lists handed to _cluster
FpBits == 2         \* width of a fingerprint vector
MaxSplits == 3      \* length of a ratio tuple
MaxTotal == 6       \* sum of the weights of a ratio tuple
MaxFolds == 6       \* n_folds of k_fold

None == [kind |-> "None"]
Idle == [state |-> "idle"]

Items(n) == 0..(n - 1)

RECURSIVE IntSum(_, _)
IntSum(xs, len) == IF len = 0 THEN 0 ELSE IntSum(xs, len - 1) + xs[len]

Min(S) == CHOOSE m \in S : \A o \in S : m <= o

(***************************************************************************)
(* Python float arithmetic (binary64), as far as split() uses it: the true *)
(* division of two ints, the addition of two floats, and the comparison of *)
(* an int with a float.  A nonnegative value below 2^IntBits is a          *)
(* sequence of NBits bits, most significant first, the bit at position p   *)
(* weighing 2^(IntBits - p); every binary64 value the model meets is such  *)
(* a sequence with at most FLT_MANT_DIG significant bits.                  *)
(***************************************************************************)
FLT_MANT_DIG == 53

IntBits == MaxItems + 2

RECURSIVE Log2Up(_)
Log2Up(v) == IF v <= 1 THEN 0 ELSE 1 + Log2Up((v + 1) \div 2)

MaxDivisor == IF MaxTotal > MaxFolds THEN MaxTotal ELSE MaxFolds

FracBits == FLT_MANT_DIG + Log2Up(MaxDivisor) + 1

NBits == IntBits + FracBits

RECURSIVE Pow2(_)
Pow2(e) == IF e = 0 THEN 1 ELSE 2 * Pow2(e - 1)

RECURSIVE Pow2Mod(_, _)
Pow2Mod(e, b) == IF e = 0 THEN 1 % b ELSE (2 * Pow2Mod(e - 1, b)) % b

\* the binary expansion of a / b, truncated after FracBits fractional bits
FixedPoint(a, b) ==
    [p \in 1..NBits |->
        IF p <= IntBits
        THEN ((a \div b) \div Pow2(IntBits - p)) % 2
        ELSE (2 * (((a % b) * Pow2Mod(p - IntBits - 1, b)) % b)) \div b] \o <<>>

\* whether the truncation in FixedPoint dropped a nonzero tail
Inexact(a, b) == ((a % b) * Pow2Mod(FracBits, b)) % b # 0

\* round to FLT_MANT_DIG significant bits, to nearest, ties to even
RoundNearestEven(bits, sticky) ==
    LET ones == {p \in 1..NBits : bits[p] = 1} IN
    IF ones = {} THEN bits
    ELSE
    LET msb == Min(ones)
        lsb == msb + FLT_MANT_DIG - 1
    IN  IF lsb >= NBits THEN bits
        ELSE
        LET guard == bits[lsb + 1]
            rest == sticky \/ \E p \in (lsb + 2)..NBits : bits[p] = 1
            up == guard = 1 /\ (rest \/ bits[lsb] = 1)
            zeros == {p \in 1..lsb : bits[p] = 0}
            carry == CHOOSE p \in zeros : \A o \in zeros : o <= p
        IN  IF up
            THEN [p \in 1..NBits |->
                    IF p < carry THEN bits[p] ELSE IF p = carry THEN 1 ELSE 0] \o <<>>
            ELSE [p \in 1..NBits |-> IF p <= lsb THEN bits[p] ELSE 0] \o <<>>

\* int / int in Python 3: the binary64 value nearest to the quotient
TrueDiv(a, b) == RoundNearestEven(FixedPoint(a, b), Inexact(a, b))

CarryIn(u, v, p) ==
    \E m \in (p + 1)..NBits :
        /\ u[m] = 1
        /\ v[m] = 1
        /\ \A q \in (p + 1)..(m - 1) : u[q] + v[q] = 1

ExactAdd(u, v) ==
    [p \in 1..NBits |-> (u[p] + v[p] + (IF CarryIn(u, v, p) THEN 1 ELSE 0)) % 2] \o <<>>

\* float + float
FloatAdd(u, v) == RoundNearestEven(ExactAdd(u, v), FALSE)

RECURSIVE BitsValue(_, _)
BitsValue(fbits, fk) == IF fk = 0 THEN 0 ELSE 2 * BitsValue(fbits, fk - 1) + fbits[fk]

\* int > float and int <= float, for an int c >= 0
IntGtFloat(c, u) == c > BitsValue(u, IntBits)
IntLeFloat(c, u) == c <= BitsValue(u, IntBits)

\* the builtin sum() over the first len floats of xs: 0 + xs[1] + ... left to right
RECURSIVE PySum(_, _)
PySum(xs, len) ==
    IF len = 0 THEN FixedPoint(0, 1)
    ELSE LET head == PySum(xs, len - 1)
         IN  IF Len(head) = NBits THEN FloatAdd(head, xs[len]) ELSE head

(***************************************************************************)
(* The Cluster Assigner, SimThresholdSplit._cluster.  A pair list is a     *)
(* sequence of <<i, j>>; clustered is the label array np.arange(n).        *)
(***************************************************************************)
arange(n) == [k \in Items(n) |-> k]

\* relabel with only item j (or i) moved, not every item of its label
relabel_item_only(clustered, i, j) ==
    LET i_clust == clustered[i]
        j_clust == clustered[j]
    IN  IF i_clust < j_clust
        THEN [clustered EXCEPT ![j] = i_clust]
        ELSE [clustered EXCEPT ![i] = j_clust]

\* relabel without its else branch
relabel_no_else(clustered, i, j) ==
    LET i_clust == clustered[i]
        j_clust == clustered[j]
    IN  IF i_clust < j_clust
        THEN [k \in DOMAIN clustered |->
                IF clustered[k] = j_clust THEN i_clust ELSE clustered[k]]
        ELSE clustered

\* relabel with the comparison turned round: the larger label survives
relabel_to_larger(clustered, i, j) ==
    LET i_clust == clustered[i]
        j_clust == clustered[j]
    IN  IF i_clust > j_clust
        THEN [k \in DOMAIN clustered |->
                IF clustered[k] = j_clust THEN i_clust ELSE clustered[k]]
        ELSE [k \in DOMAIN clustered |->
                IF clustered[k] = i_clust THEN j_clust ELSE clustered[k]]

\* the body of the loop of _cluster for one pair (i, j)
relabel(clustered, i, j) ==
    LET i_clust == clustered[i]
        j_clust == clustered[j]
    IN  IF i_clust < j_clust
        THEN [k \in DOMAIN clustered |->
                IF clustered[k] = j_clust THEN i_clust ELSE clustered[k]]
        ELSE [k \in DOMAIN clustered |->
                IF clustered[k] = i_clust THEN j_clust ELSE clustered[k]]

\* the label array after the first len pairs of the list
RECURSIVE ClusterLoop(_, _, _)
ClusterLoop(n, pairs, len) ==
    IF len = 0 THEN arange(n)
    ELSE relabel(ClusterLoop(n, pairs, len - 1), pairs[len][1], pairs[len][2])

_cluster(n, pairs) == ClusterLoop(n, pairs, Len(pairs))

(***************************************************************************)
(* The Splitter: _split_sizes, _cluster_cumsum, split and k_fold.          *)
(* A ratio is a sequence of ints; split i of the source (0-based) is       *)
(* position i + 1 of the sequences below.  NaN (np.nan) marks a cluster that *)
(* no split took; it equals no split index.                                *)
(***************************************************************************)
NaN == -1

_split_sizes(n_instances_, ratio) ==
    LET tot == IntSum(ratio, Len(ratio))
    IN  [t \in 1..Len(ratio) |-> TrueDiv(n_instances_ * ratio[t], tot)] \o <<>>

\* clusters.value_counts(): the item count of every cluster-id
value_counts(clusters) ==
    [c \in {clusters[k] : k \in DOMAIN clusters} |->
        Cardinality({k \in DOMAIN clusters : clusters[k] = c})]

\* the orders np.random.permutation can put the cluster-ids in
permutation(S) ==
    {o \in [1..Cardinality(S) -> S] : \A a, b \in DOMAIN o : a # b => o[a] # o[b]}

\* nums.ix[order].cumsum(): the running item count at every cluster-id
_cluster_cumsum(clusters, order) ==
    LET nums == value_counts(clusters)
        counts == [t \in 1..Len(order) |-> nums[order[t]]]
    IN  [c \in DOMAIN nums |->
            IntSum(counts, CHOOSE t \in 1..Len(order) : order[t] = c)]

\* res after the passes i = 0 .. upto - 1 of the loop of split
RECURSIVE SplitLoop(_, _, _)
SplitLoop(nums, sizes, upto) ==
    IF upto = 0 THEN [c \in DOMAIN nums |-> NaN]
    ELSE
    LET res == SplitLoop(nums, sizes, upto - 1)
        i == upto - 1
        lower == PySum(sizes, i)
        upper == PySum(sizes, i + 1)
        taken == {c \in DOMAIN nums :
                    /\ IF i = 0 THEN nums[c] > 0 ELSE IntGtFloat(nums[c], lower)
                    /\ IntLeFloat(nums[c], upper)}
    IN  [c \in DOMAIN nums |-> IF c \in taken THEN i ELSE res[c]]

\* the masks split(ratio) returns when the shuffle yields `order`
split(n_instances_, clusters, ratio, order) ==
    LET sizes == _split_sizes(n_instances_, ratio)
        nums == _cluster_cumsum(clusters, order)
        res == SplitLoop(nums, sizes, Len(ratio))
    IN  [t \in 1..Len(ratio) |->
            [k \in DOMAIN clusters |-> res[clusters[k]] = t - 1]]

\* the (train, test) pairs k_fold(n_folds) returns
k_fold(n_instances_, clusters, n_folds, order) ==
    LET folds == split(n_instances_, clusters, [t \in 1..n_folds |-> 1], order)
    IN  [t \in 1..n_folds |->
            [train |-> [k \in DOMAIN clusters |-> ~folds[t][k]], test |-> folds[t]]]

Ratios ==
    {r \in UNION {[1..len -> 0..MaxTotal] : len \in 1..MaxSplits} :
        IntSum(r, Len(r)) <= MaxTotal}

(***************************************************************************)
(* Pair lists and the cluster assignments a fit can leave behind.          *)
(***************************************************************************)
PairLists(n, P) == UNION {[1..len -> P] : len \in 0..MaxPairs}

UpperPairs(n) == {p \in Items(n) \X Items(n) : p[1] < p[2]}

FittedClusters(n) == {_cluster(n, pairs) : pairs \in PairLists(n, UpperPairs(n))}

(***************************************************************************)
(* SpecSplit: one query, split or k_fold, on a fitted instance.  Both read *)
(* n_instances_ and clusters and write nothing, so a behaviour is a fitted *)
(* instance and one call on it.                                            *)
(***************************************************************************)
SplitInit ==
    /\ \E n \in 1..MaxItems : \E clusters \in FittedClusters(n) :
          self = [_n_instances_ |-> n, clusters |-> clusters]
    /\ call = [op |-> "none"]
    /\ ret = [kind |-> "none"]
    /\ src = Idle
    /\ run = Idle
    /\ engine = Idle

Split ==
    /\ call.op = "none"
    /\ \E ratio \in Ratios :
          IF IntSum(ratio, Len(ratio)) = 0
          THEN /\ call' = [op |-> "split", ratio |-> ratio, order |-> <<>>]
               /\ ret' = [kind |-> "raised", raised |-> "ZeroDivisionError"]
          ELSE \E order \in permutation(DOMAIN value_counts(self.clusters)) :
                  /\ call' = [op |-> "split", ratio |-> ratio, order |-> order]
                  /\ ret' = [kind |-> "masks", masks |->
                               split(self._n_instances_, self.clusters, ratio, order)]
    /\ UNCHANGED <<self, src, run, engine>>

KFold ==
    /\ call.op = "none"
    /\ \E n_folds \in 1..MaxFolds :
       \E order \in permutation(DOMAIN value_counts(self.clusters)) :
          /\ call' = [op |-> "k_fold", n_folds |-> n_folds, order |-> order]
          /\ ret' = [kind |-> "folds", folds |->
                       k_fold(self._n_instances_, self.clusters, n_folds, order)]
    /\ UNCHANGED <<self, src, run, engine>>

SplitNext == Split \/ KFold

SpecSplit == SplitInit /\ [][SplitNext]_vars

\* C1: the masks of split(ratio) partition the items 0..n-1 (every item is
\* true in exactly one mask) and two items with the same cluster-id are true
\* in the same mask, for every ratio of nonnegative weights with positive sum
\* and every shuffle of the cluster-ids.
C1_SplitMasksPartition ==
    (call.op = "split" /\ ret.kind = "masks") =>
        /\ \A k \in DOMAIN self.clusters :
              Cardinality({t \in DOMAIN ret.masks : ret.masks[t][k]}) = 1
        /\ \A k, m \in DOMAIN self.clusters :
              self.clusters[k] = self.clusters[m] =>
                  \A t \in DOMAIN ret.masks : ret.masks[t][k] = ret.masks[t][m]

\* C9: k_fold(n_folds) yields n_folds (train, test) pairs whose test masks are
\* pairwise disjoint and together cover all items, each train mask being the
\* complement of its test mask.
C9_KFoldTestsPartition ==
    call.op = "k_fold" =>
        /\ Len(ret.folds) = call.n_folds
        /\ \A k \in DOMAIN self.clusters :
              Cardinality({t \in DOMAIN ret.folds : ret.folds[t].test[k]}) = 1
        /\ \A t \in DOMAIN ret.folds : \A k \in DOMAIN self.clusters :
              ret.folds[t].train[k] = ~ret.folds[t].test[k]

(***************************************************************************)
(* SpecCluster: the loop of _cluster, one pair per step, run side by side  *)
(* on a pair list and on a reordering of the same list.                    *)
(***************************************************************************)
ClusterInit ==
    /\ \E n \in 1..MaxItems :
       \E pairs \in PairLists(n, Items(n) \X Items(n)) :
       \E order \in permutation(DOMAIN pairs) :
          run = [n |-> n,
                 pairs |-> pairs,
                 reordered |-> [t \in DOMAIN pairs |-> pairs[order[t]]],
                 pos |-> 0,
                 clustered |-> arange(n),
                 clustered_r |-> arange(n)]
    /\ self = Idle
    /\ call = Idle
    /\ ret = Idle
    /\ src = Idle
    /\ engine = Idle

\* for i, j in pairs.values.tolist(): one pass of the loop, in both runs
ClusterStep ==
    /\ run.pos < Len(run.pairs)
    /\ run' = [run EXCEPT
                 !.pos = @ + 1,
                 !.clustered =
                     relabel(@, run.pairs[run.pos + 1][1], run.pairs[run.pos + 1][2]),
                 !.clustered_r =
                     relabel(@, run.reordered[run.pos + 1][1],
                             run.reordered[run.pos + 1][2])]
    /\ UNCHANGED <<self, call, ret, src, engine>>

ClusterNext == ClusterStep

SpecCluster == ClusterInit /\ [][ClusterNext]_vars

ClusterDone == run.pos = Len(run.pairs)

\* u and v are joined by a chain of the given pairs whose inner items are < k
RECURSIVE Chain(_, _, _, _)
Chain(u, v, pairs, k) ==
    IF k = 0
    THEN u = v \/ \E t \in DOMAIN pairs : pairs[t] = <<u, v>> \/ pairs[t] = <<v, u>>
    ELSE \/ Chain(u, v, pairs, k - 1)
         \/ Chain(u, k - 1, pairs, k - 1) /\ Chain(k - 1, v, pairs, k - 1)

SamePartition(a, b) ==
    \A u, v \in DOMAIN a : (a[u] = a[v]) <=> (b[u] = b[v])

\* C2: _cluster returns a length-n array in which two items carry the same
\* cluster-id exactly when a chain of the given pairs connects them; an item
\* connected to no other item keeps its own index, and an empty pair list
\* gives cluster[k] = k for every k.
C2_ClusterIsConnectivity ==
    ClusterDone =>
        /\ DOMAIN run.clustered = Items(run.n)
        /\ \A u, v \in Items(run.n) :
              (run.clustered[u] = run.clustered[v]) <=> Chain(u, v, run.pairs, run.n)
        /\ \A u \in Items(run.n) :
              (\A v \in Items(run.n) \ {u} : ~Chain(u, v, run.pairs, run.n))
                  => run.clustered[u] = u
        /\ run.pairs = <<>> => run.clustered = arange(run.n)

\* a run over two pairs that joins three items through a shared item
C2_Witness ==
    /\ ClusterDone
    /\ run.n = 3
    /\ run.pairs = <<<<1, 2>>, <<0, 1>>>>
    /\ \A u \in Items(run.n) : run.clustered[u] = 0

\* C3: the partition _cluster returns for a pair list is the partition it
\* returns for every reordering of that list.
C3_ClusterOrderIndependent ==
    ClusterDone => SamePartition(run.clustered, run.clustered_r)

\* a finished run on a list and a different ordering of it that merges items
C3_Witness ==
    /\ ClusterDone
    /\ run.reordered # run.pairs
    /\ \E u, v \in Items(run.n) : u # v /\ run.clustered[u] = run.clustered[v]
    /\ \E u, v \in Items(run.n) : run.clustered[u] # run.clustered[v]

(***************************************************************************)
(* The Pairwise Similarity Engine and the Sparse Pair Store:               *)
(* returns_pairs, _above_minimum, _pairs_from_sim_mat, _pairs_from_fps and *)
(* its two implementations.  A fingerprint is the set of its set bits, the *)
(* metric is the default 'jaccard'.  A list of pairs is                    *)
(* [kind |-> "list", items |-> <<<<i, j>>, sim>> ...], a DataFrame is      *)
(* [kind |-> "frame", rows |-> [i, j, sim] ...].                           *)
(***************************************************************************)
RECURSIVE Factorial(_)
Factorial(v) == IF v <= 1 THEN 1 ELSE v * Factorial(v - 1)

\* 1.0 in similarity steps: every Jaccard index of two fingerprints is whole
Unit == 4 * Factorial(FpBits)

\* fingerprints with at least one bit set
FingerPrints == (SUBSET (1..FpBits)) \ {{}}

Thresholds == {0, Unit \div 4, Unit \div 2, Unit}

\* scipy's 'jaccard' distance of two boolean vectors
jaccard(a, b) ==
    (Unit * Cardinality((a \ b) \cup (b \ a))) \div Cardinality(a \cup b)

\* the (i, j) entry of 1 - cdist(x_i, x_j) and of 1 - squareform(pdist(fps))
similarity(fps, i, j) == Unit - jaccard(fps[i], fps[j])

Raised(exc) == [kind |-> "raised", raised |-> exc]

RECURSIVE Flatten(_, _)
Flatten(lists, len) ==
    IF len = 0 THEN <<>> ELSE Flatten(lists, len - 1) \o lists[len]

\* the cells of a sparse matrix in row-major order
RECURSIVE RowMajor(_)
RowMajor(cells) ==
    IF cells = {} THEN <<>>
    ELSE LET first == CHOOSE c \in cells : \A d \in cells :
                          c[1] < d[1] \/ (c[1] = d[1] /\ c[2] <= d[2])
         IN  <<first>> \o RowMajor(cells \ {first})

\* the rows left in the order of the list
sort_values_as_given(rows) == rows

\* DataFrame.sort_values('sim'): ascending, rows of equal sim keep their order
RECURSIVE sort_values(_)
sort_values(rows) ==
    IF rows = <<>> THEN <<>>
    ELSE LET sorted == sort_values(SubSeq(rows, 1, Len(rows) - 1))
             last == rows[Len(rows)]
             before == {t \in DOMAIN sorted : sorted[t].sim <= last.sim}
         IN  SubSeq(sorted, 1, Cardinality(before)) \o <<last>>
                 \o SubSeq(sorted, Cardinality(before) + 1, Len(sorted))

\* the decorator: builds the sorted frame from a ((i, j), sim) list.  Handed
\* a DataFrame, `for p in pairs` yields its column labels 'i', 'j', 'sim';
\* p[0] is then a one-character string and p[0][1] raises IndexError.
returns_pairs(pairs) ==
    IF pairs.kind = "list"
    THEN [kind |-> "frame",
          rows |-> sort_values([t \in DOMAIN pairs.items |->
                                   [i |-> pairs.items[t][1][1],
                                    j |-> pairs.items[t][1][2],
                                    sim |-> pairs.items[t][2]]])]
    ELSE IF pairs.kind = "frame" THEN Raised("IndexError")
    ELSE pairs

\* the cells of block-pair args that np.triu(sim_mat, k=1) leaves in place
unmasked(args) ==
    LET i == args[1]
        j == args[2]
    IN  {c \in (i[1]..(i[2] - 1)) \X (j[1]..(j[2] - 1)) :
            i = j => c[2] - j[1] > c[1] - i[1]}

\* _above_minimum zeroing sim < threshold only
_above_minimum_at_floor(args, inp, threshold) ==
    LET i == args[1]
        j == args[2]
        cells == (i[1]..(i[2] - 1)) \X (j[1]..(j[2] - 1))
        triu == [c \in cells |->
                    IF c \in unmasked(args) THEN similarity(inp, c[1], c[2]) ELSE 0]
        sim_mat == [c \in cells |-> IF triu[c] < threshold THEN 0 ELSE triu[c]]
        stored == RowMajor({c \in cells : sim_mat[c] # 0})
    IN  [t \in DOMAIN stored |-> <<stored[t], sim_mat[stored[t]]>>]

\* the items of the sparse matrix of one block-pair
_above_minimum(args, inp, threshold) ==
    LET i == args[1]
        j == args[2]
        cells == (i[1]..(i[2] - 1)) \X (j[1]..(j[2] - 1))
        triu == [c \in cells |->
                    IF c \in unmasked(args) THEN similarity(inp, c[1], c[2]) ELSE 0]
        sim_mat == [c \in cells |-> IF triu[c] <= threshold THEN 0 ELSE triu[c]]
        stored == RowMajor({c \in cells : sim_mat[c] # 0})
    IN  [t \in DOMAIN stored |-> <<stored[t], sim_mat[stored[t]]>>]

\* slice_generator with the inner generator restarted at 0
RECURSIVE slice_generator_from_zero(_, _, _, _)
slice_generator_from_zero(low, high, width, end) ==
    IF low < high
    THEN LET res == <<low, IF low + width < high THEN low + width ELSE high>>
         IN  (IF end THEN <<res>>
              ELSE LET gen == slice_generator_from_zero(0, high, width, TRUE)
                   IN  [t \in DOMAIN gen |-> <<res, gen[t]>>])
                 \o slice_generator_from_zero(low + width, high, width, end)
    ELSE <<>>

\* what the generator yields, in order
RECURSIVE slice_generator(_, _, _, _)
slice_generator(low, high, width, end) ==
    IF low < high
    THEN LET res == <<low, IF low + width < high THEN low + width ELSE high>>
         IN  (IF end THEN <<res>>
              ELSE LET gen == slice_generator(low, high, width, TRUE)
                   IN  [t \in DOMAIN gen |-> <<res, gen[t]>>])
                 \o slice_generator(low + width, high, width, end)
    ELSE <<>>

\* sum(..., []) over the block-pairs; Pool.map returns them in the same order
_pairs_from_fps_mem_opt(fps, block_width, min_threshold) ==
    LET slices == slice_generator(0, Cardinality(DOMAIN fps), block_width, FALSE)
    IN  [kind |-> "list",
         items |-> Flatten([t \in DOMAIN slices |->
                               _above_minimum(slices[t], fps, min_threshold)],
                           Len(slices))]

\* triu(sim_mat, k=1).todok().items(), wrapped by returns_pairs
_pairs_from_sim_mat(sim_mat) ==
    LET stored == RowMajor({c \in DOMAIN sim_mat : c[1] < c[2] /\ sim_mat[c] # 0})
    IN  returns_pairs([kind |-> "list",
                       items |-> [t \in DOMAIN stored |->
                                     <<stored[t], sim_mat[stored[t]]>>]])

_pairs_from_fps_mem_intensive(fps, min_threshold) ==
    LET dist_mat == [c \in (DOMAIN fps) \X (DOMAIN fps) |-> jaccard(fps[c[1]], fps[c[2]])]
        sim_mat == [c \in DOMAIN dist_mat |->
                       IF Unit - dist_mat[c] <= min_threshold THEN 0
                       ELSE Unit - dist_mat[c]]
    IN  _pairs_from_sim_mat(sim_mat)

_pairs_from_fps(memory_optimized, block_width, min_threshold, fps) ==
    returns_pairs(IF memory_optimized
                  THEN _pairs_from_fps_mem_opt(fps, block_width, min_threshold)
                  ELSE _pairs_from_fps_mem_intensive(fps, min_threshold))

(***************************************************************************)
(* SpecPairs: one fingerprint matrix handed to _pairs_from_fps in both     *)
(* modes.  The blocked mode runs one _above_minimum per block-pair, on     *)
(* n_jobs workers that take the block-pairs in the order slice_generator   *)
(* yields them and finish in any order (engine.overtaken: one finished     *)
(* before an earlier one); the dense call follows, one step.               *)
(***************************************************************************)
Pending == [kind |-> "pending"]

\* n_jobs: the calling process alone, or a pool of two workers
Jobs == {1, 2}

\* the floors of the engine: none, 0.5 and 1.0
Floors == {0, Unit \div 2, Unit}

PairsInit ==
    /\ \E n \in 1..MaxItems, block_width \in 1..MaxItems,
          min_threshold \in Floors, n_jobs \in Jobs :
         /\ block_width <= n
         /\ \E fps \in [Items(n) -> FingerPrints] :
              LET slices == slice_generator(0, n, block_width, FALSE)
              IN  engine = [state |-> "pairs", fps |-> fps,
                            block_width |-> block_width,
                            min_threshold |-> min_threshold, n_jobs |-> n_jobs,
                            slices |-> slices,
                            results |-> [t \in DOMAIN slices |-> Pending],
                            overtaken |-> FALSE,
                            blocked |-> Pending, dense |-> Pending]
    /\ self = Idle /\ call = Idle /\ ret = Idle /\ src = Idle /\ run = Idle

\* a worker finishes one block-pair
AboveMinimum ==
    /\ engine.state = "pairs"
    /\ \E t \in DOMAIN engine.slices :
         /\ engine.results[t] = Pending
         /\ Cardinality({u \in 1..(t - 1) : engine.results[u] = Pending}) < engine.n_jobs
         /\ engine' = [engine EXCEPT !.results[t] =
                          [kind |-> "list",
                           items |-> _above_minimum(engine.slices[t], engine.fps,
                                                    engine.min_threshold)],
                                      !.overtaken =
                              @ \/ \E u \in 1..(t - 1) : engine.results[u] = Pending]
    /\ UNCHANGED <<self, call, ret, src, run>>

\* sum(..., []) of the results in block-pair order, then the decorator
MergeBlocks ==
    /\ engine.state = "pairs"
    /\ engine.blocked = Pending
    /\ \A t \in DOMAIN engine.slices : engine.results[t] # Pending
    /\ engine' = [engine EXCEPT !.blocked =
                     returns_pairs([kind |-> "list",
                                    items |-> Flatten([t \in DOMAIN engine.slices |->
                                                          engine.results[t].items],
                                                      Len(engine.slices))])]
    /\ UNCHANGED <<self, call, ret, src, run>>

\* the same fingerprints with memory_optimized = False
MemIntensive ==
    /\ engine.state = "pairs"
    /\ engine.blocked # Pending
    /\ engine.dense = Pending
    /\ engine' = [engine EXCEPT !.dense =
                     _pairs_from_fps(FALSE, engine.block_width,
                                     engine.min_threshold, engine.fps)]
    /\ UNCHANGED <<self, call, ret, src, run>>

PairsNext == AboveMinimum \/ MergeBlocks \/ MemIntensive

SpecPairs == PairsInit /\ [][PairsNext]_vars

\* the triples of a frame
Triples(frame) == {frame.rows[t] : t \in DOMAIN frame.rows}

\* C4: for the same fingerprints, metric and floor, the blocked and the dense
\* mode both yield a Sparse Pair Store, holding the same (i, j, sim) triples.
C4_BlockedAndDenseSameStore ==
    (engine.state = "pairs" /\ engine.blocked # Pending /\ engine.dense # Pending)
        => /\ engine.blocked.kind = "frame"
           /\ engine.dense.kind = "frame"
           /\ Triples(engine.blocked) = Triples(engine.dense)

\* C5: the block-pairs of slice_generator, with the diagonal blocks masked to
\* their strict upper triangle, evaluate every index pair i < j in exactly one
\* block-pair and no pair with i >= j; so every pair above the floor is
\* emitted exactly once, by the workers and in the merged store.
C5_BlockPairsCoverUpperTriangleOnce ==
    engine.state = "pairs" =>
        LET n == Cardinality(DOMAIN engine.fps)
            slices == engine.slices
            results == engine.results
            above(c) == similarity(engine.fps, c[1], c[2]) > engine.min_threshold
        IN  /\ \A i, j \in Items(n) :
                 Cardinality({t \in DOMAIN slices : <<i, j>> \in unmasked(slices[t])})
                     = IF i < j THEN 1 ELSE 0
            /\ \A t \in DOMAIN slices : results[t] # Pending =>
                 /\ \A k \in DOMAIN results[t].items :
                      results[t].items[k][1] \in unmasked(slices[t])
                 /\ \A c \in unmasked(slices[t]) :
                      Cardinality({k \in DOMAIN results[t].items :
                                      results[t].items[k][1] = c})
                          = IF above(c) THEN 1 ELSE 0
            /\ engine.blocked # Pending =>
                 /\ engine.blocked.kind = "frame"
                 /\ \A i, j \in Items(n) :
                      Cardinality({k \in DOMAIN engine.blocked.rows :
                                      /\ engine.blocked.rows[k].i = i
                                      /\ engine.blocked.rows[k].j = j})
                          = IF i < j /\ above(<<i, j>>) THEN 1 ELSE 0

\* three items in blocks of two, the last block narrower, all pairs stored
C5_Witness ==
    /\ engine.state = "pairs"
    /\ engine.block_width > 1
    /\ Cardinality(DOMAIN engine.fps) % engine.block_width # 0
    /\ engine.blocked # Pending
    /\ Len(engine.blocked.rows) = Cardinality(UpperPairs(Cardinality(DOMAIN engine.fps)))

(***************************************************************************)
(* The instance: __init__, the n_instances_ and block_width setters, fit   *)
(* and _optimal_thresh.  An attribute holds None or a record with its kind. *)
(* fit and _optimal_thresh are given as the set of results a call can have: *)
(* the instance it leaves behind, what it returns or raises and the calls  *)
(* it made.  largest_cluster only enters the                               *)
(* objective f, whose values only the minimizer sees; the minimizer is     *)
(* scipy's and may return any point of its bounds.                         *)
(***************************************************************************)
PyInt(val) == [kind |-> "int", val |-> val]

PyFloat(val) == [kind |-> "float", val |-> val]

\* an attribute that was never assigned
Unset == [kind |-> "unset"]

NoCalls == [transform |-> 0, similarity |-> 0, minimize_scalar |-> 0]

__init__(min_threshold, fper, similarity_metric, memory_optimized, block_width) ==
    [kind |-> "SimThresholdSplit",
     index |-> None, fps |-> None, _n_instances_ |-> None,
     pairs_ |-> None, threshold_ |-> None, clusters |-> Unset,
     fper |-> fper, similarity_metric |-> similarity_metric,
     memory_optimized |-> memory_optimized, _block_width |-> block_width,
     min_threshold |-> min_threshold]

n_instances__setter_unchecked(slf, val) ==
    [slf EXCEPT !._n_instances_ = PyInt(val)]

\* @n_instances_.setter
n_instances__setter(slf, val) ==
    IF val >= slf._block_width
    THEN [slf EXCEPT !._n_instances_ = PyInt(val)]
    ELSE Raised("AssertionError")

\* @block_width.setter; on an unfitted instance val <= None raises TypeError
\* under Python 3 and is False under Python 2
block_width_setter(slf, val, python) ==
    IF slf._n_instances_ = None
    THEN Raised(IF python = 3 THEN "TypeError" ELSE "AssertionError")
    ELSE IF val <= slf._n_instances_.val
    THEN [slf EXCEPT !._block_width = val]
    ELSE Raised("AssertionError")

\* inp.index of a pandas object, RangeIndex(len(inp), name='batch') otherwise
get_index(inp) ==
    IF inp.kind \in {"Series", "DataFrame"}
    THEN [kind |-> "Index", size |-> inp.len]
    ELSE [kind |-> "RangeIndex", size |-> inp.len]

\* fper.transform(inp): the features of every item, or the featurizer's error
transform(features, inp) ==
    {Raised("FeaturizerError"),
     [kind |-> "DataFrame", len |-> inp.len,
      values |-> [k \in DOMAIN inp.values |-> features[inp.values[k]]]]}

\* the filter turned round: the pairs whose similarity is below the threshold
good_pairs_below(pairs_, threshold) ==
    LET kept == SelectSeq(pairs_.rows, LAMBDA row : row.sim < threshold)
    IN  [t \in DOMAIN kept |-> <<kept[t].i, kept[t].j>>]

\* pairs_.loc[pairs_.sim > threshold, ('i', 'j')].values.tolist()
good_pairs(pairs_, threshold) ==
    LET kept == SelectSeq(pairs_.rows, LAMBDA row : row.sim > threshold)
    IN  [t \in DOMAIN kept |-> <<kept[t].i, kept[t].j>>]

\* the data-dependent term of the objective: res.value_counts().max()
f(slf, threshold) ==
    LET nums == value_counts(_cluster(slf._n_instances_.val,
                                      good_pairs(slf.pairs_, threshold)))
    IN  CHOOSE m \in {nums[c] : c \in DOMAIN nums} :
            \A c \in DOMAIN nums : nums[c] <= m

\* minimize_scalar(f, bounds=(low, high), method='bounded'): the point it
\* returns and the last point it evaluated f at, or the error it raises
minimize_scalar(slf, low, high) ==
    IF low > high THEN {Raised("ValueError")}
    ELSE {Raised("OptimizerError")} \cup
         {[kind |-> "OptimizeResult", x |-> x, probe |-> probe, fun |-> f(slf, probe)] :
             x \in {t \in Thresholds : low <= t /\ t <= high},
             probe \in {t \in Thresholds : low <= t /\ t <= high}}

\* the clusters of the last probe of the minimizer exposed as the result
_optimal_thresh_stale(slf, res) ==
    LET assigned == [slf EXCEPT !.threshold_ = PyFloat(res.x)]
    IN  [self |-> [assigned EXCEPT !.clusters =
                      [kind |-> "Series", index |-> assigned.index,
                       values |-> _cluster(assigned._n_instances_.val,
                                           good_pairs(assigned.pairs_, res.probe))]],
         ret |-> assigned.threshold_]

\* the statements of _optimal_thresh after the minimizer returned res
_optimal_thresh_tail(slf, res) ==
    LET assigned == [slf EXCEPT !.threshold_ = PyFloat(res.x)]
        gd_prs == good_pairs(assigned.pairs_, assigned.threshold_.val)
    IN  [self |-> [assigned EXCEPT !.clusters =
                      [kind |-> "Series", index |-> assigned.index,
                       values |-> _cluster(assigned._n_instances_.val, gd_prs)]],
         ret |-> assigned.threshold_]

\* f reads self.pairs_.loc, which a list of pairs does not have
_optimal_thresh(slf) ==
    IF slf.pairs_.kind # "frame"
    THEN {[self |-> slf, ret |-> Raised("AttributeError")]}
    ELSE {IF res.kind = "raised" THEN [self |-> slf, ret |-> res]
          ELSE _optimal_thresh_tail(slf, res) :
             res \in minimize_scalar(slf, slf.min_threshold, Unit)}

\* the end of fit: self.threshold_ = self._optimal_thresh(); return self
fit_threshold(slf, calls) ==
    {IF out.ret.kind = "raised"
     THEN [self |-> out.self, ret |-> out.ret,
           calls |-> [calls EXCEPT !.minimize_scalar = 1]]
     ELSE [self |-> [out.self EXCEPT !.threshold_ = out.ret],
           ret |-> [kind |-> "self"],
           calls |-> [calls EXCEPT !.minimize_scalar = 1]] :
        out \in _optimal_thresh(slf)}

\* the branches of fit that compute the store from fingerprints
fit_pairs_from_fps(slf, calls) ==
    LET pairs == _pairs_from_fps(slf.memory_optimized, slf._block_width,
                                 slf.min_threshold, slf.fps.values)
        called == [calls EXCEPT !.similarity = 1]
    IN  IF pairs.kind = "raised"
        THEN {[self |-> slf, ret |-> pairs, calls |-> called]}
        ELSE fit_threshold([slf EXCEPT !.pairs_ = pairs], called)

\* the raw-items branch featurizing whether or not pairs were passed
fit_mols_always_transform(indexed, inp, features) ==
    UNION {IF fps.kind = "raised"
           THEN {[self |-> indexed, ret |-> fps,
                  calls |-> [NoCalls EXCEPT !.transform = 1]]}
           ELSE IF indexed.pairs_ = None
           THEN fit_pairs_from_fps([indexed EXCEPT !.fps = fps],
                                   [NoCalls EXCEPT !.transform = 1])
           ELSE fit_threshold([indexed EXCEPT !.fps = fps],
                              [NoCalls EXCEPT !.transform = 1]) :
              fps \in transform(features, inp)}

\* the branch of fit for raw items ("we were passed Mol")
fit_mols(indexed, inp, features) ==
    IF indexed.pairs_ = None
    THEN UNION {IF fps.kind = "raised"
                THEN {[self |-> indexed, ret |-> fps,
                       calls |-> [NoCalls EXCEPT !.transform = 1]]}
                ELSE fit_pairs_from_fps([indexed EXCEPT !.fps = fps],
                                        [NoCalls EXCEPT !.transform = 1]) :
                   fps \in transform(features, inp)}
    ELSE fit_threshold(indexed, NoCalls)

fit(slf, inp, pairs, features) ==
    LET counted == n_instances__setter(slf, inp.len)
    IN  IF counted.kind = "raised"
        THEN {[self |-> slf, ret |-> counted, calls |-> NoCalls]}
        ELSE
        LET indexed == [counted EXCEPT !.pairs_ = pairs, !.index = get_index(inp)]
        IN  IF slf.similarity_metric = None
            THEN fit_threshold([indexed EXCEPT !.pairs_ = _pairs_from_sim_mat(inp.values)],
                               [NoCalls EXCEPT !.similarity = 1])
            ELSE IF slf.fper = None
            THEN IF pairs = None
                 THEN fit_pairs_from_fps([indexed EXCEPT !.fps = inp], NoCalls)
                 ELSE fit_threshold([indexed EXCEPT !.fps = inp], NoCalls)
            ELSE fit_mols(indexed, inp, features)

(***************************************************************************)
(* Spec: one instance and any number of calls on it.  SpecFit: the first   *)
(* fit of an instance.  The items of the data set and the features the     *)
(* fingerprinter extracts from them are fixed at the start; a fit call is  *)
(* handed the first n items in the form its mode expects.  SpecFit ranges  *)
(* over all data sets and floors, Spec over the two data sets of Patterns  *)
(* and the floor 0.5.                                                      *)
(***************************************************************************)
\* the features of one item
Library == {{1}, {1, 2}, {2}}

Morgan == [kind |-> "Fingerprinter", name |-> "morgan"]

Jaccard == [kind |-> "str", val |-> "jaccard"]

FittedState == {"index", "pairs_", "threshold_", "clusters"}

\* what the caller passes as inp for the mode the instance is in
Input(slf, features, n, array) ==
    IF slf.similarity_metric = None
    THEN [kind |-> IF array THEN "ndarray" ELSE "DataFrame", len |-> n,
          values |-> [c \in Items(n) \X Items(n) |-> similarity(features, c[1], c[2])]]
    ELSE IF slf.fper = None
    THEN [kind |-> "DataFrame", len |-> n, values |-> [k \in Items(n) |-> features[k]]]
    ELSE [kind |-> "Series", len |-> n, values |-> [k \in Items(n) |-> k]]

\* the pairs argument: absent, the documented list, or a frame made earlier
Precalculated(given, features, n) ==
    LET list == _pairs_from_fps_mem_opt([k \in Items(n) |-> features[k]], 1, 0)
    IN  IF given = "None" THEN None
        ELSE IF given = "list" THEN list
        ELSE returns_pairs(list)

\* a fresh instance, and the data set its fit calls draw from
Construct(datasets, floors) ==
    /\ \E min_threshold \in floors, fper \in {None, Morgan},
          similarity_metric \in {None, Jaccard}, memory_optimized \in BOOLEAN,
          block_width \in 1..MaxItems :
         self = __init__(min_threshold, fper, similarity_metric,
                         memory_optimized, block_width)
    /\ \E features \in datasets :
         src = [features |-> features]
    /\ call = [op |-> "__init__"]
    /\ ret = None
    /\ run = Idle
    /\ engine = Idle

\* data sets that repeat a pattern of features
Patterns == {<<{1}, {1, 2}>>, <<{1}, {2}, {1, 2}>>}

Init ==
    Construct({[k \in Items(MaxItems) |-> pattern[(k % Len(pattern)) + 1]] :
                  pattern \in Patterns}, {Unit \div 2})

Fit ==
    /\ self.kind = "SimThresholdSplit"
    /\ \E n \in 1..MaxItems, array \in BOOLEAN, given \in {"None", "list", "frame"} :
         /\ array => self.similarity_metric = None
         /\ \E out \in fit(self, Input(self, src.features, n, array),
                           Precalculated(given, src.features, n), src.features) :
              /\ self' = out.self
              /\ ret' = out.ret
              /\ call' = [op |-> "fit", n |-> n, given |-> given, calls |-> out.calls]
    /\ UNCHANGED <<src, run, engine>>

SetBlockWidth ==
    /\ self.kind = "SimThresholdSplit"
    /\ \E val \in 1..MaxItems, python \in {2, 3} :
         LET out == block_width_setter(self, val, python)
         IN  /\ self' = IF out.kind = "raised" THEN self ELSE out
             /\ ret' = IF out.kind = "raised" THEN out ELSE None
             /\ call' = [op |-> "block_width", val |-> val]
    /\ UNCHANGED <<src, run, engine>>

Next == Fit \/ SetBlockWidth

Spec == Init /\ [][Next]_vars

FitInit == Construct([Items(MaxItems) -> Library], Thresholds)

FirstFit == call.op = "__init__" /\ Fit

SpecFit == FitInit /\ [][FirstFit]_vars

FitReturned == call.op = "fit" /\ ret.kind = "self"

\* the fitted state of an instance
Fitted(slf) == [a \in FittedState |-> slf[a]]

\* the fitted states one fit call, returning or raising, gives a new instance
SingleFit(slf, features) ==
    LET new == __init__(slf.min_threshold, slf.fper, slf.similarity_metric,
                        slf.memory_optimized, 1)
    IN  {Fitted(out.self) :
            out \in UNION {fit(new, Input(new, features, n, array),
                               Precalculated(given, features, n), features) :
                              n \in 1..MaxItems, array \in BOOLEAN,
                              given \in {"None", "list", "frame"}}}

\* C6: whatever fit calls were made, raising ones included, the index, the
\* pair store, the threshold and the cluster assignment of the instance are
\* together what one fit call produces, never values of two different calls.
C6_FittedStateFromOneFit ==
    self.kind = "SimThresholdSplit" =>
        (Fitted(self) = Fitted(__init__(0, None, None, TRUE, 1))
            \/ Fitted(self) \in SingleFit(self, src.features))

\* C7: a fit call whose input has fewer items than the configured block
\* width raises the assertion error at once: it calls neither the
\* featurizer, nor a similarity computation, nor the minimizer, and it
\* leaves every attribute of the instance as it was.
C7_SmallInputFailsAtOnce ==
    [][(call'.op = "fit" /\ call'.n < self._block_width)
          => /\ ret' = Raised("AssertionError")
             /\ call'.calls = NoCalls
             /\ self' = self]_vars

\* a fitted instance rejects a later, smaller input
C7_Witness ==
    /\ call.op = "fit"
    /\ call.n < self._block_width
    /\ ret = Raised("AssertionError")
    /\ self.threshold_ # None
    /\ self._n_instances_.val > call.n

\* C8: after a successful fit threshold_ lies in [min_threshold, 1.0] and two
\* items share a cluster-id exactly when a chain of store pairs with
\* sim > threshold_ connects them, the id being the smallest index of the
\* cluster: the assignment at the returned threshold, not at another probe.
C8_ClustersAtReturnedThreshold ==
    FitReturned =>
        LET n == self._n_instances_.val
            t == self.threshold_.val
            kept == SelectSeq(self.pairs_.rows, LAMBDA row : row.sim > t)
            close == [k \in DOMAIN kept |-> <<kept[k].i, kept[k].j>>]
            clusters == self.clusters.values
        IN  /\ self.min_threshold <= t /\ t <= Unit
            /\ DOMAIN clusters = Items(n)
            /\ \A u, v \in Items(n) :
                  (clusters[u] = clusters[v]) <=> Chain(u, v, close, n)
            /\ \A u \in Items(n) :
                  clusters[u] = Min({v \in Items(n) : Chain(u, v, close, n)})
            /\ clusters = _cluster(n, close)

\* a store with pairs on both sides of the returned threshold
C8_Witness ==
    /\ FitReturned
    /\ self.threshold_.val > self.min_threshold
    /\ \E k \in DOMAIN self.pairs_.rows : self.pairs_.rows[k].sim > self.threshold_.val
    /\ \E k \in DOMAIN self.pairs_.rows : self.pairs_.rows[k].sim <= self.threshold_.val
    /\ \E u \in DOMAIN self.clusters.values : self.clusters.values[u] # u

\* C10 as stated: after a successful fit on any of the three paths every
\* record of the store has i < j and sim > min_threshold, and the store is
\* empty when min_threshold is 1.0.
C10_StoreAboveFloor ==
    (FitReturned /\ call.given = "None") =>
        /\ \A k \in DOMAIN self.pairs_.rows :
              /\ self.pairs_.rows[k].i < self.pairs_.rows[k].j
              /\ self.pairs_.rows[k].sim > self.min_threshold
        /\ self.min_threshold = Unit => self.pairs_.rows = <<>>

\* C10 amended: as stated when the store is computed from fingerprints
\* (supplied, or featurized from raw items); a store extracted from a
\* supplied similarity matrix holds every nonzero entry above the diagonal,
\* whatever min_threshold is.
C10_StoreAboveFloorFromFingerprints ==
    (FitReturned /\ call.given = "None") =>
        LET rows == self.pairs_.rows
            n == self._n_instances_.val
        IN  /\ \A k \in DOMAIN rows : rows[k].i < rows[k].j
            /\ self.similarity_metric # None =>
                  /\ \A k \in DOMAIN rows : rows[k].sim > self.min_threshold
                  /\ self.min_threshold = Unit => rows = <<>>
            /\ self.similarity_metric = None =>
                  \A i, j \in Items(n) :
                     Cardinality({k \in DOMAIN rows : rows[k].i = i /\ rows[k].j = j})
                        = IF i < j /\ similarity(src.features, i, j) # 0 THEN 1 ELSE 0

\* a featurized fit that dropped a pair at the floor and kept one above it
C10_Witness ==
    /\ FitReturned /\ call.given = "None"
    /\ self.similarity_metric # None /\ self.fper # None
    /\ self.pairs_.rows # <<>>
    /\ Len(self.pairs_.rows) < Cardinality(UpperPairs(self._n_instances_.val))
    /\ \E i, j \in Items(self._n_instances_.val) :
          i < j /\ similarity(src.features, i, j) = self.min_threshold

\* a fit call that got past the item-count assertion of line 141
FitProceeded == call.op = "fit" /\ ret # Raised("AssertionError")

C12_MergeIndependentOfCompletionOrder ==
    (engine.state = "pairs" /\ engine.n_jobs > 1 /\ engine.blocked # Pending) =>
        LET single == _pairs_from_fps_mem_opt(engine.fps, engine.block_width,
                                              engine.min_threshold).items
            rows == engine.blocked.rows
        IN  /\ engine.blocked.kind = "frame"
            /\ \A i, j \in DOMAIN engine.fps : \A sim \in 0..Unit :
                  Cardinality({k \in DOMAIN rows : rows[k] = [i |-> i, j |-> j, sim |-> sim]})
                     = Cardinality({k \in DOMAIN single : single[k] = <<<<i, j>>, sim>>})
            /\ \A a, b \in DOMAIN rows : a < b => rows[a].sim <= rows[b].sim

\* a later block-pair finished before an earlier one, and the blocks hold
\* pairs of different similarity
C12_Witness ==
    /\ engine.state = "pairs" /\ engine.n_jobs > 1 /\ engine.blocked # Pending
    /\ engine.overtaken
    /\ \E a, b \in DOMAIN engine.blocked.rows :
          engine.blocked.rows[a].sim < engine.blocked.rows[b].sim

\* C13: with sizes s_k = n * ratio_k / sum(ratio) and c the running item
\* count of a cluster in the shuffled walk, split(ratio) puts the cluster in
\* split k exactly when s_0 + ... + s_(k-1) < c <= s_0 + ... + s_k; so the
\* items of the splits 0..k number at most s_0 + ... + s_k.  (The sums are
\* compared exactly, both sides multiplied by sum(ratio).)
C13_FirstSplitWithinCumulativeBound ==
    (call.op = "split" /\ ret.kind = "masks") =>
        LET n == self._n_instances_
            ratio == call.ratio
            tot == IntSum(ratio, Len(ratio))
            nums == _cluster_cumsum(self.clusters, call.order)
            members(c) == {m \in DOMAIN self.clusters : self.clusters[m] = c}
        IN  /\ \A c \in DOMAIN nums : \A k \in 1..Len(ratio) :
                  (\A m \in members(c) : ret.masks[k][m])
                      <=> /\ n * IntSum(ratio, k - 1) < nums[c] * tot
                          /\ nums[c] * tot <= n * IntSum(ratio, k)
            /\ \A k \in 1..Len(ratio) :
                  tot * Cardinality({m \in DOMAIN self.clusters :
                                        \E t \in 1..k : ret.masks[t][m]})
                      <= n * IntSum(ratio, k)

\* every label of the array is the smallest item carrying that label
MinLabelled(clustered) ==
    \A k \in DOMAIN clustered :
        /\ clustered[k] <= k
        /\ clustered[clustered[k]] = clustered[k]
        /\ clustered[k] = Min({m \in DOMAIN clustered : clustered[m] = clustered[k]})

\* C14: before and after every pair of _cluster's loop each label is the
\* smallest item index of its group (cluster[k] <= k and
\* cluster[cluster[k]] = cluster[k]); so the final label array, and not only
\* the partition, is the same for every ordering of the pair list.
C14_LabelsAreGroupMinima ==
    /\ MinLabelled(run.clustered)
    /\ MinLabelled(run.clustered_r)
    /\ ClusterDone => run.clustered = run.clustered_r

\* a finished run whose last pair, taken in the else branch, moved a group of
\* two items to a smaller label, and a different ordering of the same list
C14_Witness ==
    /\ ClusterDone
    /\ run.reordered # run.pairs
    /\ Len(run.pairs) = 2
    /\ LET before == relabel(arange(run.n), run.pairs[1][1], run.pairs[1][2])
           i == run.pairs[2][1]
           j == run.pairs[2][2]
       IN  /\ before[i] > before[j]
           /\ Cardinality({k \in Items(run.n) : before[k] = before[i]}) = 2
           /\ \A k \in Items(run.n) : run.clustered[k] = 0

\* C15: for the store of a fitted instance and thresholds t1 <= t2, the pairs
\* kept by sim > t2 are among those kept by sim > t1, the partition at t2
\* refines the partition at t1, and the largest cluster f counts at t2 is no
\* larger than at t1.
C15_LargestClusterNonIncreasing ==
    FitReturned =>
        \A t1, t2 \in Thresholds : t1 <= t2 =>
            LET n == self._n_instances_.val
                kept1 == good_pairs(self.pairs_, t1)
                kept2 == good_pairs(self.pairs_, t2)
                at1 == _cluster(n, kept1)
                at2 == _cluster(n, kept2)
            IN  /\ \A p \in {kept2[k] : k \in DOMAIN kept2} :
                      Cardinality({k \in DOMAIN kept2 : kept2[k] = p})
                          <= Cardinality({k \in DOMAIN kept1 : kept1[k] = p})
                /\ \A u, v \in Items(n) : at2[u] = at2[v] => at1[u] = at1[v]
                /\ f(self, t2) <= f(self, t1)

\* a fitted store that the higher of two thresholds cuts to fewer pairs, still
\* some, and to a smaller largest cluster
C15_Witness ==
    /\ FitReturned
    /\ \E t1, t2 \in Thresholds :
          /\ t1 < t2
          /\ good_pairs(self.pairs_, t2) # <<>>
          /\ Len(good_pairs(self.pairs_, t2)) < Len(good_pairs(self.pairs_, t1))
          /\ 1 < f(self, t2)
          /\ f(self, t2) < f(self, t1)

====
